---- MODULE Spec2Model ----
(***************************************************************************)
(* Model of src/video_summary.py: the VideoProcessor pipeline              *)
(* (convert_to_mp4 -> transcribe_video -> summarize_text inside            *)
(* process_video) and the Streamlit script main() that drives it.          *)
(*                                                                         *)
(* Strings that the code inspects (file names, paths) are sequences of     *)
(* one-character strings, so that os.path.splitext and str.lower are       *)
(* computed rather than assumed.  Error messages are sequences of their    *)
(* concatenated pieces (f-string prefix followed by str(e)).               *)
(***************************************************************************)
EXTENDS Naturals, Sequences, FiniteSets, TLC

VARIABLES
    active,                \* the browser sessions that exist (each reruns main())
    fs,                    \* the filesystem: the set of paths that exist
    nextTmp,               \* tempfile's supply of fresh names
    openai_api_key,        \* module global openai.api_key
    aai_settings_api_key,  \* module global aai.settings.api_key
    pc,                    \* per session: position in main() / process_video()
    runs,                  \* per session: executions of main() started so far
    openai_key,            \* per session: sidebar text input (line 96)
    assemblyai_key,        \* per session: sidebar text input (line 97)
    uploaded,              \* per session: uploaded_file.name, <<>> when None
    temp_video,            \* per session: temp_video.name, <<>> when unbound
    self_openai_key,       \* per session: processor.openai_key
    transcriber,           \* per session: the key self.transcriber's client holds
    video_path,            \* per session: process_video's parameter
    temp_files,            \* per session: process_video's cleanup list
    temp_mp4,              \* per session: convert_to_mp4's temp_mp4.name
    mp4_path,              \* per session: process_video's mp4_path
    transcript,            \* per session: process_video's transcript
    result,                \* per session: the returned dict, <<>> when none
    exc,                   \* per session: the exception in flight, <<>> when none
    banner,                \* per session: the st.error text shown, <<>> when none
    shown,                 \* per session: the result rendered in the tabs
    log,                   \* per session: calls/returns of the three steps in this run
    fsAtCall               \* per session: the filesystem when process_video was called

globals == <<active, fs, nextTmp, openai_api_key, aai_settings_api_key>>
mainVars == <<runs, openai_key, assemblyai_key, uploaded, temp_video, banner, shown>>
procVars == <<self_openai_key, transcriber>>
runVars == <<video_path, temp_files, temp_mp4, mp4_path, transcript, result, exc,
             log, fsAtCall>>
vars == <<globals, pc, mainVars, procVars, runVars>>

-----------------------------------------------------------------------------
(* Bounds *)

\* executions of main() (Streamlit reruns) per session
MaxRuns == 2

-----------------------------------------------------------------------------
(* Values *)

AllSessions == {1, 2}

\* Python None, and a local that has not been bound yet
None == "<None>"
Unset == "<unset>"
NoPath == <<>>
NoExc == <<>>

\* what a user may type in the two password fields: nothing, or their key
OpenAIKeyOf(s) == <<"sk-A", "sk-B">>[s]
AssemblyKeyOf(s) == <<"aai-A", "aai-B">>[s]

\* names of uploaded files (the uploader admits mp4, mov, avi, mkv, wmv, flv)
UploadNames ==
    { <<"v", ".", "m", "p", "4">>,
      <<"v", ".", "M", "P", "4">>,
      <<"v", ".", "M", "p", "4">>,
      <<"v", ".", "a", "v", "i">>,
      <<"m", "p", "4", ".", "m", "o", "v">>,
      <<"a", ".", "m", "p", "4", ".", "A", "V", "I">> }

\* the uploads of the two concurrent sessions: one mp4, one to be converted
ConcUploadNames == { <<"v", ".", "m", "p", "4">>, <<"v", ".", "a", "v", "i">> }

\* what the speech-recognition service may hand back as transcript.text
TranscriptTexts == {"hello world", "", None}
Summaries == {"greeting"}
Details == {"quota exceeded"}

DotMp4 == <<".", "m", "p", "4">>
TempAudio == <<"t", "e", "m", "p", "-", "a", "u", "d", "i", "o", ".", "m", "4", "a">>

-----------------------------------------------------------------------------
(* Pure helpers: the library functions the code calls on strings *)

Range(f) == { f[i] : i \in DOMAIN f }

\* str.rfind, 1-based: the last index of ch in p, 0 when absent
RFind(p, ch) ==
    LET hits == { i \in 1..Len(p) : p[i] = ch }
    IN  IF hits = {} THEN 0 ELSE CHOOSE i \in hits : \A j \in hits : j <= i

\* os.path.splitext: <<root, ext>>; ext starts at the last dot of the last
\* path component, unless that component consists of leading dots up to it
SplitExt(p) ==
    LET sepIndex == RFind(p, "/")
        dotIndex == RFind(p, ".")
    IN  IF /\ dotIndex > sepIndex
           /\ \E k \in (sepIndex + 1)..(dotIndex - 1) : p[k] # "."
        THEN <<SubSeq(p, 1, dotIndex - 1), SubSeq(p, dotIndex, Len(p))>>
        ELSE <<p, <<>> >>

LowerChar(ch) ==
    CASE ch = "A" -> "a" [] ch = "I" -> "i" [] ch = "M" -> "m"
      [] ch = "P" -> "p" [] ch = "V" -> "v" [] OTHER -> ch

\* a comparison that forgets .lower()
LowerOmitted(str) == str

\* str.lower
Lower(str) == [i \in 1..Len(str) |-> LowerChar(str[i])]

Digits == <<"0", "1", "2", "3", "4", "5", "6", "7", "8", "9">>

\* tempfile.NamedTemporaryFile(delete=False, suffix=...).name: a fresh name in
\* the temporary directory followed by the suffix
TmpName(n, suffix) ==
    <<"/", "t", "m", "p", "/", "t", Digits[((n \div 10) % 10) + 1],
      Digits[(n % 10) + 1]>>
        \o suffix

\* the test of line 63
NeedsConversion(path) == Lower(SplitExt(path)[2]) # DotMp4

\* the messages of the four except clauses
ConvertError(detail) == <<"Error converting video: ", detail>>
\* an except clause pasted from summarize_text with its message unchanged
TranscribeErrorPasted(detail) == <<"Error summarizing text: ", detail>>
TranscribeError(detail) == <<"Error transcribing video: ", detail>>
SummarizeError(detail) == <<"Error summarizing text: ", detail>>
ProcessingError(e) == <<"Error processing video: ">> \o e
MissingKeys == <<"Please enter both API keys in the sidebar.">>

\* the loop of lines 84-86 applied to the filesystem
Cleanup(files, fsys) == fsys \ Range(files)

\* log entries
Call(op, arg, key) == [op |-> op, ev |-> "call", arg |-> arg, key |-> key]
Ret(op, how) == [op |-> op, ev |-> how]

-----------------------------------------------------------------------------
(* Initial states: no file exists, no key has been configured, every       *)
(* session is about to run main() for the first time.                      *)

InitWith(sessions) ==
    /\ active = sessions
    /\ fs = {}
    /\ nextTmp = 0
    /\ openai_api_key = None
    /\ aai_settings_api_key = None
    /\ pc = [s \in sessions |-> "idle"]
    /\ runs = [s \in sessions |-> 0]
    /\ openai_key = [s \in sessions |-> ""]
    /\ assemblyai_key = [s \in sessions |-> ""]
    /\ uploaded = [s \in sessions |-> <<>>]
    /\ temp_video = [s \in sessions |-> NoPath]
    /\ self_openai_key = [s \in sessions |-> Unset]
    /\ transcriber = [s \in sessions |-> Unset]
    /\ video_path = [s \in sessions |-> NoPath]
    /\ temp_files = [s \in sessions |-> <<>>]
    /\ temp_mp4 = [s \in sessions |-> NoPath]
    /\ mp4_path = [s \in sessions |-> NoPath]
    /\ transcript = [s \in sessions |-> Unset]
    /\ result = [s \in sessions |-> <<>>]
    /\ exc = [s \in sessions |-> NoExc]
    /\ banner = [s \in sessions |-> <<>>]
    /\ shown = [s \in sessions |-> <<>>]
    /\ log = [s \in sessions |-> <<>>]
    /\ fsAtCall = [s \in sessions |-> {}]

\* one browser session
Init == InitWith({1})

\* two browser sessions served by the same Python process, each of which has
\* entered its own keys, uploaded a file (saved by lines 116-120) and clicked
\* "Process Video": both are about to construct their VideoProcessor
InitConc ==
    /\ active = AllSessions
    /\ uploaded \in [AllSessions -> ConcUploadNames]
    /\ temp_video = [s \in AllSessions |-> TmpName(s - 1, SplitExt(uploaded[s])[2])]
    /\ fs = {temp_video[s] : s \in AllSessions}
    /\ nextTmp = Cardinality(AllSessions)
    /\ openai_api_key = None
    /\ aai_settings_api_key = None
    /\ pc = [s \in AllSessions |-> "init_openai"]
    /\ runs = [s \in AllSessions |-> 1]
    /\ openai_key = [s \in AllSessions |-> OpenAIKeyOf(s)]
    /\ assemblyai_key = [s \in AllSessions |-> AssemblyKeyOf(s)]
    /\ self_openai_key = [s \in AllSessions |-> Unset]
    /\ transcriber = [s \in AllSessions |-> Unset]
    /\ video_path = [s \in AllSessions |-> NoPath]
    /\ temp_files = [s \in AllSessions |-> <<>>]
    /\ temp_mp4 = [s \in AllSessions |-> NoPath]
    /\ mp4_path = [s \in AllSessions |-> NoPath]
    /\ transcript = [s \in AllSessions |-> Unset]
    /\ result = [s \in AllSessions |-> <<>>]
    /\ exc = [s \in AllSessions |-> NoExc]
    /\ banner = [s \in AllSessions |-> <<>>]
    /\ shown = [s \in AllSessions |-> <<>>]
    /\ log = [s \in AllSessions |-> <<>>]
    /\ fsAtCall = [s \in AllSessions |-> {}]

-----------------------------------------------------------------------------
(* main(): one execution of the script *)

\* lines 88-115: the script starts, reads the two text inputs and the
\* uploader; with no upload it ends at once
MainStart(s) ==
    /\ pc[s] \in {"idle", "ended"}
    /\ runs[s] < MaxRuns
    /\ runs' = [runs EXCEPT ![s] = @ + 1]
    /\ \E ok \in {"", OpenAIKeyOf(s)}, ak \in {"", AssemblyKeyOf(s)},
          up \in UploadNames \cup {<<>>} :
          /\ openai_key' = [openai_key EXCEPT ![s] = ok]
          /\ assemblyai_key' = [assemblyai_key EXCEPT ![s] = ak]
          /\ uploaded' = [uploaded EXCEPT ![s] = up]
          /\ pc' = [pc EXCEPT ![s] = IF up = <<>> THEN "ended" ELSE "save_upload"]
    /\ temp_video' = [temp_video EXCEPT ![s] = NoPath]
    /\ banner' = [banner EXCEPT ![s] = <<>>]
    /\ shown' = [shown EXCEPT ![s] = <<>>]
    /\ video_path' = [video_path EXCEPT ![s] = NoPath]
    /\ temp_files' = [temp_files EXCEPT ![s] = <<>>]
    /\ temp_mp4' = [temp_mp4 EXCEPT ![s] = NoPath]
    /\ mp4_path' = [mp4_path EXCEPT ![s] = NoPath]
    /\ transcript' = [transcript EXCEPT ![s] = Unset]
    /\ result' = [result EXCEPT ![s] = <<>>]
    /\ exc' = [exc EXCEPT ![s] = NoExc]
    /\ log' = [log EXCEPT ![s] = <<>>]
    /\ fsAtCall' = [fsAtCall EXCEPT ![s] = {}]
    /\ UNCHANGED <<globals, procVars>>

\* lines 116-120: the upload is written to a fresh temporary file whose
\* suffix is the extension of the uploaded name
SaveUpload(s) ==
    /\ pc[s] = "save_upload"
    /\ LET name == TmpName(nextTmp, SplitExt(uploaded[s])[2])
       IN  /\ temp_video' = [temp_video EXCEPT ![s] = name]
           /\ fs' = fs \cup {name}
    /\ nextTmp' = nextTmp + 1
    /\ pc' = [pc EXCEPT ![s] = "button"]
    /\ UNCHANGED <<active, openai_api_key, aai_settings_api_key, runs, openai_key,
                   assemblyai_key, uploaded, banner, shown, procVars, runVars>>

\* lines 123-126: the button; not clicked, the script ends; clicked with a
\* key missing, it shows an error and ends; otherwise it enters the try
Button(s) ==
    /\ pc[s] = "button"
    /\ \E clicked \in BOOLEAN :
          IF ~clicked
          THEN /\ pc' = [pc EXCEPT ![s] = "ended"]
               /\ UNCHANGED banner
          ELSE IF openai_key[s] = "" \/ assemblyai_key[s] = ""
          THEN /\ pc' = [pc EXCEPT ![s] = "ended"]
               /\ banner' = [banner EXCEPT ![s] = MissingKeys]
          ELSE /\ pc' = [pc EXCEPT ![s] = "init_openai"]
               /\ UNCHANGED banner
    /\ UNCHANGED <<globals, runs, openai_key, assemblyai_key, uploaded, temp_video,
                   shown, procVars, runVars>>

-----------------------------------------------------------------------------
(* VideoProcessor.__init__ *)

\* lines 11-12
InitOpenAI(s) ==
    /\ pc[s] = "init_openai"
    /\ self_openai_key' = [self_openai_key EXCEPT ![s] = openai_key[s]]
    /\ openai_api_key' = openai_key[s]
    /\ pc' = [pc EXCEPT ![s] = "init_aai"]
    /\ UNCHANGED <<active, fs, nextTmp, aai_settings_api_key, mainVars, transcriber,
                   runVars>>

\* line 13
InitAAI(s) ==
    /\ pc[s] = "init_aai"
    /\ aai_settings_api_key' = assemblyai_key[s]
    /\ pc' = [pc EXCEPT ![s] = "init_transcriber"]
    /\ UNCHANGED <<active, fs, nextTmp, openai_api_key, mainVars, procVars, runVars>>

\* line 14: aai.Transcriber() takes its client from the module settings
InitTranscriber(s) ==
    /\ pc[s] = "init_transcriber"
    /\ transcriber' = [transcriber EXCEPT ![s] = aai_settings_api_key]
    /\ pc' = [pc EXCEPT ![s] = "pv_start"]
    /\ UNCHANGED <<globals, mainVars, self_openai_key, runVars>>

-----------------------------------------------------------------------------
(* VideoProcessor.process_video and the three steps it calls *)

Logged(s, e) == [log EXCEPT ![s] = Append(@, e)]

\* process_video tracking mp4_path whether or not it was converted
PvStartTracksInput(s) ==
    /\ pc[s] = "pv_start"
    /\ video_path' = [video_path EXCEPT ![s] = temp_video[s]]
    /\ fsAtCall' = [fsAtCall EXCEPT ![s] = fs]
    /\ IF NeedsConversion(temp_video[s])
       THEN /\ pc' = [pc EXCEPT ![s] = "convert_call"]
            /\ temp_files' = [temp_files EXCEPT ![s] = <<>>]
            /\ UNCHANGED mp4_path
       ELSE /\ pc' = [pc EXCEPT ![s] = "transcribe_call"]
            /\ temp_files' = [temp_files EXCEPT ![s] = <<temp_video[s]>>]
            /\ mp4_path' = [mp4_path EXCEPT ![s] = temp_video[s]]
    /\ UNCHANGED <<globals, mainVars, procVars, temp_mp4, transcript, result, exc, log>>

\* lines 57-63 and 67-68: entry, the empty cleanup list, the extension test
PvStart(s) ==
    /\ pc[s] = "pv_start"
    /\ video_path' = [video_path EXCEPT ![s] = temp_video[s]]
    /\ temp_files' = [temp_files EXCEPT ![s] = <<>>]
    /\ fsAtCall' = [fsAtCall EXCEPT ![s] = fs]
    /\ IF NeedsConversion(temp_video[s])
       THEN /\ pc' = [pc EXCEPT ![s] = "convert_call"]
            /\ UNCHANGED mp4_path
       ELSE /\ pc' = [pc EXCEPT ![s] = "transcribe_call"]
            /\ mp4_path' = [mp4_path EXCEPT ![s] = temp_video[s]]
    /\ UNCHANGED <<globals, mainVars, procVars, temp_mp4, transcript, result, exc, log>>

\* lines 65, 16-21: convert_to_mp4 is called and creates its output file
ConvertCreateTemp(s) ==
    /\ pc[s] = "convert_call"
    /\ LET name == TmpName(nextTmp, DotMp4)
       IN  /\ temp_mp4' = [temp_mp4 EXCEPT ![s] = name]
           /\ fs' = fs \cup {name}
    /\ nextTmp' = nextTmp + 1
    /\ log' = Logged(s, Call("convert", video_path[s], None))
    /\ pc' = [pc EXCEPT ![s] = "convert_load"]
    /\ UNCHANGED <<active, openai_api_key, aai_settings_api_key, mainVars, procVars,
                   video_path, temp_files, mp4_path, transcript, result, exc, fsAtCall>>

\* lines 24, 31-32: VideoFileClip(input_path) opens the input or raises
ConvertLoad(s) ==
    /\ pc[s] = "convert_load"
    /\ \/ /\ pc' = [pc EXCEPT ![s] = "convert_write"]
          /\ UNCHANGED <<exc, log>>
       \/ \E d \in Details :
             /\ exc' = [exc EXCEPT ![s] = ConvertError(d)]
             /\ log' = Logged(s, Ret("convert", "fail"))
             /\ pc' = [pc EXCEPT ![s] = "pv_finally"]
    /\ UNCHANGED <<globals, mainVars, procVars, video_path, temp_files, temp_mp4,
                   mp4_path, transcript, result, fsAtCall>>

\* process_video using the converted file without tracking it
ConvertWriteUntracked(s) ==
    /\ pc[s] = "convert_write"
    /\ \/ /\ fs' = fs \ {TempAudio}
          /\ mp4_path' = [mp4_path EXCEPT ![s] = temp_mp4[s]]
          /\ log' = Logged(s, Ret("convert", "ok"))
          /\ pc' = [pc EXCEPT ![s] = "transcribe_call"]
          /\ UNCHANGED <<exc, temp_files>>
       \/ \E d \in Details, left \in BOOLEAN :
             /\ fs' = IF left THEN fs \cup {TempAudio} ELSE fs
             /\ exc' = [exc EXCEPT ![s] = ConvertError(d)]
             /\ log' = Logged(s, Ret("convert", "fail"))
             /\ pc' = [pc EXCEPT ![s] = "pv_finally"]
             /\ UNCHANGED <<mp4_path, temp_files>>
    /\ UNCHANGED <<active, nextTmp, openai_api_key, aai_settings_api_key, mainVars,
                   procVars, video_path, temp_mp4, transcript, result, fsAtCall>>

\* lines 25-30, 65-66: write_videofile encodes through 'temp-audio.m4a', which
\* it removes when it finishes; the new path is returned and tracked.  When
\* the encoder raises (lines 31-32) the audio file may or may not be left.
ConvertWrite(s) ==
    /\ pc[s] = "convert_write"
    /\ \/ /\ fs' = fs \ {TempAudio}
          /\ mp4_path' = [mp4_path EXCEPT ![s] = temp_mp4[s]]
          /\ temp_files' = [temp_files EXCEPT ![s] = Append(@, temp_mp4[s])]
          /\ log' = Logged(s, Ret("convert", "ok"))
          /\ pc' = [pc EXCEPT ![s] = "transcribe_call"]
          /\ UNCHANGED exc
       \/ \E d \in Details, left \in BOOLEAN :
             /\ fs' = IF left THEN fs \cup {TempAudio} ELSE fs
             /\ exc' = [exc EXCEPT ![s] = ConvertError(d)]
             /\ log' = Logged(s, Ret("convert", "fail"))
             /\ pc' = [pc EXCEPT ![s] = "pv_finally"]
             /\ UNCHANGED <<mp4_path, temp_files>>
    /\ UNCHANGED <<active, nextTmp, openai_api_key, aai_settings_api_key, mainVars,
                   procVars, video_path, temp_mp4, transcript, result, fsAtCall>>

\* lines 72, 34-37: the request to the speech-recognition service goes out
\* with the credentials of this processor's transcriber
TranscribeCall(s) ==
    /\ pc[s] = "transcribe_call"
    /\ log' = Logged(s, Call("transcribe", mp4_path[s], transcriber[s]))
    /\ pc' = [pc EXCEPT ![s] = "transcribe_wait"]
    /\ UNCHANGED <<globals, mainVars, procVars, video_path, temp_files, temp_mp4,
                   mp4_path, transcript, result, exc, fsAtCall>>

\* transcribe_video trying again when the client raises
TranscribeReturnRetry(s) ==
    /\ pc[s] = "transcribe_wait"
    /\ \/ \E text \in TranscriptTexts :
             /\ transcript' = [transcript EXCEPT ![s] = text]
             /\ log' = Logged(s, Ret("transcribe", "ok"))
             /\ pc' = [pc EXCEPT ![s] = "summarize_call"]
       \/ /\ log' = Logged(s, Ret("transcribe", "fail"))
          /\ pc' = [pc EXCEPT ![s] = "transcribe_call"]
          /\ Len(log[s]) < 6
          /\ UNCHANGED transcript
    /\ UNCHANGED <<globals, mainVars, procVars, video_path, temp_files, temp_mp4,
                   mp4_path, result, exc, fsAtCall>>

\* lines 37-40, 72: the service answers; transcript.text is returned whatever
\* it is (a text, an empty text, or None when the service reports an error
\* status), and only an exception of the client becomes an error
TranscribeReturn(s) ==
    /\ pc[s] = "transcribe_wait"
    /\ \/ \E text \in TranscriptTexts :
             /\ transcript' = [transcript EXCEPT ![s] = text]
             /\ log' = Logged(s, Ret("transcribe", "ok"))
             /\ pc' = [pc EXCEPT ![s] = "summarize_call"]
             /\ UNCHANGED exc
       \/ \E d \in Details :
             /\ exc' = [exc EXCEPT ![s] = TranscribeError(d)]
             /\ log' = Logged(s, Ret("transcribe", "fail"))
             /\ pc' = [pc EXCEPT ![s] = "pv_finally"]
             /\ UNCHANGED transcript
    /\ UNCHANGED <<globals, mainVars, procVars, video_path, temp_files, temp_mp4,
                   mp4_path, result, fsAtCall>>

\* lines 76, 42-52: the completion request goes out with the module-level
\* openai.api_key as it is at the time of the call
SummarizeCall(s) ==
    /\ pc[s] = "summarize_call"
    /\ log' = Logged(s, Call("summarize", transcript[s], openai_api_key))
    /\ pc' = [pc EXCEPT ![s] = "summarize_wait"]
    /\ UNCHANGED <<globals, mainVars, procVars, video_path, temp_files, temp_mp4,
                   mp4_path, transcript, result, exc, fsAtCall>>

\* process_video swallowing the summarizer's failure and returning what it has
SummarizeReturnPartial(s) ==
    /\ pc[s] = "summarize_wait"
    /\ \/ \E sm \in Summaries :
             /\ result' = [result EXCEPT
                              ![s] = <<[transcript |-> transcript[s], summary |-> sm]>>]
             /\ log' = Logged(s, Ret("summarize", "ok"))
       \/ /\ result' = [result EXCEPT
                           ![s] = <<[transcript |-> transcript[s], summary |-> None]>>]
          /\ log' = Logged(s, Ret("summarize", "fail"))
    /\ pc' = [pc EXCEPT ![s] = "pv_finally"]
    /\ UNCHANGED <<globals, mainVars, procVars, video_path, temp_files, temp_mp4,
                   mp4_path, transcript, exc, fsAtCall>>

\* lines 53-55, 76-81: the summary comes back and the result dict is built,
\* or the call raises
SummarizeReturn(s) ==
    /\ pc[s] = "summarize_wait"
    /\ \/ \E sm \in Summaries :
             /\ result' = [result EXCEPT
                              ![s] = <<[transcript |-> transcript[s], summary |-> sm]>>]
             /\ log' = Logged(s, Ret("summarize", "ok"))
             /\ UNCHANGED exc
       \/ \E d \in Details :
             /\ exc' = [exc EXCEPT ![s] = SummarizeError(d)]
             /\ log' = Logged(s, Ret("summarize", "fail"))
             /\ UNCHANGED result
    /\ pc' = [pc EXCEPT ![s] = "pv_finally"]
    /\ UNCHANGED <<globals, mainVars, procVars, video_path, temp_files, temp_mp4,
                   mp4_path, transcript, fsAtCall>>

\* lines 82-86: the finally block unlinks every tracked file that exists, then
\* process_video returns its result or lets the exception go on
PvFinally(s) ==
    /\ pc[s] = "pv_finally"
    /\ fs' = Cleanup(temp_files[s], fs)
    /\ pc' = [pc EXCEPT ![s] = IF exc[s] = NoExc THEN "pv_returned" ELSE "pv_raised"]
    /\ UNCHANGED <<active, nextTmp, openai_api_key, aai_settings_api_key, mainVars,
                   procVars, runVars>>

-----------------------------------------------------------------------------
(* main(): after process_video *)

\* lines 130-157: the result is rendered in the two tabs
Display(s) ==
    /\ pc[s] = "pv_returned"
    /\ shown' = [shown EXCEPT ![s] = result[s]]
    /\ pc' = [pc EXCEPT ![s] = "main_finally"]
    /\ UNCHANGED <<globals, runs, openai_key, assemblyai_key, uploaded, temp_video,
                   banner, procVars, runVars>>

\* lines 159-160: the exception is caught and shown as one error banner
ShowError(s) ==
    /\ pc[s] = "pv_raised"
    /\ banner' = [banner EXCEPT ![s] = ProcessingError(exc[s])]
    /\ pc' = [pc EXCEPT ![s] = "main_finally"]
    /\ UNCHANGED <<globals, runs, openai_key, assemblyai_key, uploaded, temp_video,
                   shown, procVars, runVars>>

\* lines 161-164: the uploaded file's temporary copy is unlinked
MainFinally(s) ==
    /\ pc[s] = "main_finally"
    /\ fs' = fs \ {temp_video[s]}
    /\ pc' = [pc EXCEPT ![s] = "ended"]
    /\ UNCHANGED <<active, nextTmp, openai_api_key, aai_settings_api_key, mainVars,
                   procVars, runVars>>

-----------------------------------------------------------------------------

Next ==
    \/ \E s \in active : MainStart(s)
    \/ \E s \in active : SaveUpload(s)
    \/ \E s \in active : Button(s)
    \/ \E s \in active : InitOpenAI(s)
    \/ \E s \in active : InitAAI(s)
    \/ \E s \in active : InitTranscriber(s)
    \/ \E s \in active : PvStart(s)
    \/ \E s \in active : ConvertCreateTemp(s)
    \/ \E s \in active : ConvertLoad(s)
    \/ \E s \in active : ConvertWrite(s)
    \/ \E s \in active : TranscribeCall(s)
    \/ \E s \in active : TranscribeReturn(s)
    \/ \E s \in active : SummarizeCall(s)
    \/ \E s \in active : SummarizeReturn(s)
    \/ \E s \in active : PvFinally(s)
    \/ \E s \in active : Display(s)
    \/ \E s \in active : ShowError(s)
    \/ \E s \in active : MainFinally(s)

\* one session, running main() again and again
Spec == Init /\ [][Next]_vars

\* the steps from "Process Video" clicked with both keys present to the end
\* of that execution of main()
NextConc ==
    \/ \E s \in active : InitOpenAI(s)
    \/ \E s \in active : InitAAI(s)
    \/ \E s \in active : InitTranscriber(s)
    \/ \E s \in active : PvStart(s)
    \/ \E s \in active : ConvertCreateTemp(s)
    \/ \E s \in active : ConvertLoad(s)
    \/ \E s \in active : ConvertWrite(s)
    \/ \E s \in active : TranscribeCall(s)
    \/ \E s \in active : TranscribeReturn(s)
    \/ \E s \in active : SummarizeCall(s)
    \/ \E s \in active : SummarizeReturn(s)
    \/ \E s \in active : PvFinally(s)
    \/ \E s \in active : Display(s)
    \/ \E s \in active : ShowError(s)
    \/ \E s \in active : MainFinally(s)

\* two sessions whose threads interleave from the click on
SpecConc == InitConc /\ [][NextConc]_vars

-----------------------------------------------------------------------------
(* Properties *)

Steps == {"convert", "transcribe", "summarize"}
StepPrefixes ==
    {"Error converting video: ", "Error transcribing video: ", "Error summarizing text: "}

HasEvent(s, op, ev) == \E i \in DOMAIN log[s] : log[s][i].op = op /\ log[s][i].ev = ev
CallsOf(s, op) == { i \in DOMAIN log[s] : log[s][i].op = op /\ log[s][i].ev = "call" }

\* positions inside process_video, and those after it has returned or raised
InPipeline ==
    {"convert_call", "convert_load", "convert_write", "transcribe_call",
     "transcribe_wait", "summarize_call", "summarize_wait", "pv_finally"}
AfterPipeline == {"pv_returned", "pv_raised"}

\* C1: when process_video returns or raises, the files that exist are exactly
\* those that existed when it was called (nothing created by the run is left).
C1_NoTempFileLeak ==
    \A s \in active : pc[s] \in AfterPipeline => fs = fsAtCall[s]

\* C2: once transcribe_video has failed, summarize_text is not called in that
\* run, and the error in flight, then the banner shown at the top level, carry
\* the transcription message and no other step's message.
CarriesOnlyTranscription(msg) ==
    /\ "Error transcribing video: " \in Range(msg)
    /\ Range(msg) \cap StepPrefixes = {"Error transcribing video: "}

C2_TranscribeFailureSurfaces ==
    \A s \in active :
        HasEvent(s, "transcribe", "fail") =>
            /\ CallsOf(s, "summarize") = {}
            /\ pc[s] \notin {"summarize_call", "summarize_wait"}
            /\ pc[s] \in {"pv_finally", "pv_raised"} => CarriesOnlyTranscription(exc[s])
            /\ pc[s] \in {"main_finally", "ended"} =>
                   /\ CarriesOnlyTranscription(banner[s])
                   /\ shown[s] = <<>>

C2_Witness ==
    \E s \in active :
        /\ pc[s] = "ended"
        /\ HasEvent(s, "transcribe", "fail")
        /\ banner[s] = ProcessingError(<<"Error transcribing video: ", "quota exceeded">>)

\* C3: a failure of any step leaves no result: nothing is returned and nothing
\* is rendered, one error of one step propagates; a result that is returned
\* or rendered is complete (the transcript and a summary of this run).
IsStepError(e) == Len(e) = 2 /\ e[1] \in StepPrefixes /\ e[2] \in Details
IsComplete(s, r) ==
    /\ Len(r) = 1
    /\ r[1].transcript = transcript[s]
    /\ r[1].summary \in Summaries
    /\ HasEvent(s, "summarize", "ok")

C3_NoPartialResult ==
    \A s \in active :
        /\ (\E op \in Steps : HasEvent(s, op, "fail")) =>
               /\ result[s] = <<>>
               /\ shown[s] = <<>>
               /\ pc[s] # "pv_returned"
               /\ pc[s] \in {"pv_finally", "pv_raised"} => IsStepError(exc[s])
               /\ pc[s] \in {"main_finally", "ended"} =>
                      /\ Len(banner[s]) = 3
                      /\ IsStepError(Tail(banner[s]))
        /\ pc[s] = "pv_raised" => result[s] = <<>> /\ IsStepError(exc[s])
        /\ pc[s] = "pv_returned" => exc[s] = NoExc /\ IsComplete(s, result[s])
        /\ result[s] # <<>> => IsComplete(s, result[s])
        /\ shown[s] # <<>> => IsComplete(s, shown[s])

C3_Witness ==
    \E s \in active :
        /\ pc[s] = "ended"
        /\ HasEvent(s, "summarize", "fail")
        /\ transcript[s] = "hello world"
        /\ result[s] = <<>>
        /\ shown[s] = <<>>

\* C4: an input whose name ends in ".mp4" in any letter case is never handed
\* to convert_to_mp4 and is itself the argument of transcribe_video; any other
\* input is handed to convert_to_mp4.
EndsWithMp4AnyCase(p) ==
    /\ Len(p) > 4
    /\ p[Len(p) - 3] = "."
    /\ p[Len(p) - 2] \in {"m", "M"}
    /\ p[Len(p) - 1] \in {"p", "P"}
    /\ p[Len(p)] = "4"

C4_ConvertOnlyWhenNotMp4 ==
    \A s \in active :
        video_path[s] # NoPath =>
            IF EndsWithMp4AnyCase(video_path[s])
            THEN /\ CallsOf(s, "convert") = {}
                 /\ pc[s] \notin {"convert_call", "convert_load", "convert_write"}
                 /\ \A i \in CallsOf(s, "transcribe") : log[s][i].arg = video_path[s]
                 /\ pc[s] = "transcribe_call" => mp4_path[s] = video_path[s]
            ELSE pc[s] = "convert_call" \/ CallsOf(s, "convert") # {}

C4_Witness ==
    \E s \in active :
        /\ uploaded[s] = <<"v", ".", "M", "P", "4">>
        /\ \E i \in CallsOf(s, "transcribe") : log[s][i].arg = temp_video[s]
        /\ CallsOf(s, "convert") = {}

\* C5: every request a session's run sends carries the key that session typed.
C5_OwnCredentials ==
    \A s \in active :
        /\ \A i \in CallsOf(s, "transcribe") : log[s][i].key = AssemblyKeyOf(s)
        /\ \A i \in CallsOf(s, "summarize") : log[s][i].key = OpenAIKeyOf(s)

\* C6: summarize_text is never called with an empty or absent transcript, and
\* no result holds an empty or absent transcript.
C6_NoEmptyTranscript ==
    \A s \in active :
        /\ \A i \in CallsOf(s, "summarize") : log[s][i].arg \notin {"", None}
        /\ result[s] # <<>> => result[s][1].transcript \notin {"", None}

\* C7: in one run the steps are called in the order convert (optional),
\* transcribe, summarize, each at most once, each only right after the
\* previous step returned successfully; a failure is the last event of the run
\* and process_video returns only after summarize_text succeeded.
Rank(op) == CASE op = "convert" -> 1 [] op = "transcribe" -> 2 [] op = "summarize" -> 3

C7_StepOrder ==
    \A s \in active :
        LET l == log[s] IN
        /\ \A op \in Steps : Cardinality(CallsOf(s, op)) <= 1
        /\ \A i \in DOMAIN l :
              IF l[i].ev = "call"
              THEN IF i = 1
                   THEN l[i].op \in {"convert", "transcribe"}
                   ELSE /\ l[i - 1].ev = "ok"
                        /\ Rank(l[i].op) = Rank(l[i - 1].op) + 1
              ELSE /\ i > 1
                   /\ l[i - 1].ev = "call"
                   /\ l[i - 1].op = l[i].op
        /\ \A i \in DOMAIN l : l[i].ev = "fail" => i = Len(l)
        /\ pc[s] = "pv_returned" =>
              /\ l # <<>>
              /\ l[Len(l)] = Ret("summarize", "ok")
        /\ pc[s] = "pv_raised" => l # <<>> /\ l[Len(l)].ev = "fail"

C7_Witness ==
    \E s \in active :
        /\ pc[s] = "pv_returned"
        /\ Len(log[s]) = 6
        /\ log[s][1].op = "convert"

C9_InputKeptThenDeleted ==
    \A s \in active :
        /\ pc[s] \in InPipeline \cup AfterPipeline \cup {"main_finally"} =>
              /\ video_path[s] = temp_video[s]
              /\ temp_video[s] \in fs
        /\ (pc[s] = "ended" /\ video_path[s] # NoPath) => temp_video[s] \notin fs

C9_Witness ==
    \E s \in active :
        /\ pc[s] = "ended"
        /\ video_path[s] # NoPath
        /\ ~NeedsConversion(video_path[s])
        /\ result[s] # <<>>

\* C10: an execution of main() that saved an upload has deleted it when it ends.
C10_UploadDeletedAtEnd ==
    \A s \in active :
        (pc[s] = "ended" /\ temp_video[s] # NoPath) => temp_video[s] \notin fs

====
